---- MODULE Spec2Model ----
(***************************************************************************)
(* Model of PDF1.py: the tiling loop of create_tiled_image_pdf, the footer *)
(* compositor overlay_footer_and_add_text, and the per-image retry loops   *)
(* of main.                                                                *)
(*                                                                         *)
(* Three specifications share the variables:                               *)
(*   SpecTile    the geometry of the tiling loop, computed in binary       *)
(*               floating point (round to nearest, ties to even) with a    *)
(*               MantBits-bit significand instead of the 53 bits of a      *)
(*               Python float; exponents are unbounded.                    *)
(*   Spec        main: footer search, per-image loop, retry loops, the     *)
(*               output files and open handles; every library call that    *)
(*               can raise is an input chosen from the fault points env    *)
(*               allows.  Image base names are taken to be distinct, so    *)
(*               the output paths of an image start out absent.            *)
(*   SpecFooter  the same actions for one image, started from every        *)
(*               combination of footer assets.                             *)
(***************************************************************************)
EXTENDS Integers, Sequences, FiniteSets, TLC

\* ------------------------------------------------------------------ bounds
MantBits == 8          \* significand width of the modelled floats
MinWidth == 40         \* template widths  MinWidth..MaxWidth
MaxWidth == 52
MinHeight == 10        \* template heights MinHeight..MaxHeight
MaxHeight == 30
MaxImgDim == 3         \* source image width and height in 1..MaxImgDim

\* --------------------------------------------------------- float arithmetic
RECURSIVE Pow2(_)
Pow2(k) == IF k <= 0 THEN 1 ELSE 2 * Pow2(k - 1)

\* number of bits of a positive integer
BitLen(n) == CHOOSE k \in 1..30 : Pow2(k - 1) <= n /\ n < Pow2(k)

\* n / 2^k rounded to the nearest integer, ties to even
RoundShift(n, k) ==
    IF k <= 0 THEN n
    ELSE LET q == n \div Pow2(k)
             r == n % Pow2(k)
             half == Pow2(k - 1)
         IN  IF r > half \/ (r = half /\ q % 2 = 1) THEN q + 1 ELSE q

FZero == [m |-> 0, e |-> 0]

\* the float nearest to n * 2^e (n >= 0), normalised to MantBits bits
FRound(n, e) ==
    IF n = 0 THEN FZero
    ELSE LET b == BitLen(n)
         IN  IF b <= MantBits
             THEN [m |-> n * Pow2(MantBits - b), e |-> e - (MantBits - b)]
             ELSE LET q == RoundShift(n, b - MantBits)
                  IN  IF q = Pow2(MantBits)
                      THEN [m |-> Pow2(MantBits - 1), e |-> e + (b - MantBits) + 1]
                      ELSE [m |-> q, e |-> e + (b - MantBits)]

\* int -> float conversion
FromInt(n) == FRound(n, 0)

MinExp(a, b) == IF a.m = 0 THEN b.e ELSE IF b.m = 0 THEN a.e
                ELSE IF a.e < b.e THEN a.e ELSE b.e

\* the significand of a scaled to exponent e (e <= a.e)
Scaled(a, e) == IF a.m = 0 THEN 0 ELSE a.m * Pow2(a.e - e)

\* a + b, correctly rounded
FAdd(a, b) == LET e == MinExp(a, b) IN FRound(Scaled(a, e) + Scaled(b, e), e)

\* a / b, correctly rounded (b > 0): one guard bit and a sticky bit
FDiv(a, b) ==
    IF a.m = 0 THEN FZero
    ELSE LET n == a.m * Pow2(MantBits + 1)
             q == n \div b.m
             sticky == IF n % b.m = 0 THEN 0 ELSE 1
         IN  FRound(2 * q + sticky, a.e - b.e - MantBits - 2)

FLt(a, b) == LET e == MinExp(a, b) IN Scaled(a, e) < Scaled(b, e)
FLe(a, b) == LET e == MinExp(a, b) IN Scaled(a, e) <= Scaled(b, e)

\* ------------------------------------------------------------------ state
VARIABLES
    \* create_tiled_image_pdf, geometry (SpecTile)
    tpc,              \* "start" | "row" | "tile" | "done"
    template_width, template_height,     \* floats
    img,              \* <<image.width, image.height>> in pixels
    tile_width, tile_height,             \* floats
    x, y,             \* loop variables, floats
    rowTiles,         \* tiles placed in the current row
    rows              \* tile count of every finished row

VARIABLES
    \* the file system
    footers,          \* the footer assets that exist (static)
    simple_footer,    \* height of simple_footer.pdf, 0 when it does not exist
    images,           \* images[i]: the i-th image path of the command line exists
    files,            \* files[kind]: the page at the paths of the output in work,
                      \* {basename}_{size}.pdf, ..._temp.pdf and ..._new.pdf
    exists_6ft,       \* {basename}_6ft.pdf of the current image exists
    env,              \* the library calls that can raise in this run (static)
    \* main
    pc,               \* position of main
    footer_path,      \* main's footer_path
    idx,              \* index of image_path in args.image_paths
    size,             \* "6ft" | "15ft": which retry loop runs
    attempt,          \* loop variable of the retry loop
    success,          \* main's success flag
    tries,            \* attempts started in the current retry loop
    sleeps,           \* time.sleep(3) calls in the current retry loop
    status,           \* status[size]: how the retry loop of the current image ended
    verified,         \* verified[i]: outcome of the final check for image i
    exit_code,        \* return value of main, -1 while it runs
    leaked,           \* handles the last stage call left open when it returned
    last              \* inputs and result of the stage call that just returned

tvars == <<tpc, template_width, template_height, img, tile_width, tile_height,
           x, y, rowTiles, rows>>

mvars == <<footers, simple_footer, images, files, exists_6ft, env, pc, footer_path,
           idx, size, attempt, success, tries, sleeps, status, verified,
           exit_code, leaked, last>>

vars == <<tvars, mvars>>

\* ------------------------------------------------------------------ paths
MaxImages == 2         \* images on the command line

FOOTER_PATH == "Uptodatescripts/Footer.pdf"
TemplateFooter == "Templateimages/Footer.pdf"
BaseFooter == "Footer.pdf"
ScriptsFooterLc == "Uptodatescripts/footer.pdf"
TemplateFooterLc == "Templateimages/footer.pdf"
BaseFooterLc == "footer.pdf"
Synthetic == "simple_footer.pdf"

FooterPaths == {FOOTER_PATH, TemplateFooter, BaseFooter,
                ScriptsFooterLc, TemplateFooterLc, BaseFooterLc}

\* mutant: the base folder is searched before the template folder
alternate_paths_BaseFirst == <<BaseFooter, TemplateFooter,
                               ScriptsFooterLc, TemplateFooterLc, BaseFooterLc>>

\* main, lines 410-417
alternate_paths == <<TemplateFooter, BaseFooter,
                     ScriptsFooterLc, TemplateFooterLc, BaseFooterLc>>

\* overlay_footer_and_add_text, lines 171-175
fallback_paths == <<TemplateFooter, FOOTER_PATH, BaseFooter>>

\* the for ... if exists ... break ... else of lines 177-182 and 419-426:
\* the first path of the list that exists, "" when the else branch runs
FirstExisting(paths, existing) ==
    IF \E i \in 1..Len(paths) : paths[i] \in existing
    THEN paths[CHOOSE i \in 1..Len(paths) :
                 /\ paths[i] \in existing
                 /\ \A j \in 1..(i - 1) : paths[j] \notin existing]
    ELSE ""

\* main, lines 406-428
MainFooterPath(existing) ==
    IF FOOTER_PATH \notin existing
    THEN LET alt == FirstExisting(alternate_paths, existing)
         IN  IF alt # "" THEN alt ELSE FOOTER_PATH
    ELSE FOOTER_PATH

max_attempts == 3
simple_footer_height == 100
NumFields == 3         \* insert_text calls of one text placement scheme

Sizes == {"6ft", "15ft"}
Kinds == {"target", "temp", "new"}

\* a page stored in a file: its tiles, and how often the footer image and
\* each text field were drawn on it
NoFile == [exists |-> FALSE, tiles |-> "none", footer |-> 0,
           name |-> 0, width |-> 0, length |-> 0]

NoCall == [fn |-> "none", ret |-> FALSE, stop |-> "none", insertFault |-> FALSE,
           used |-> "", text1 |-> 0, text2 |-> 0, altTried |-> FALSE,
           removeFail |-> FALSE, tempSaved |-> FALSE]

\* ----------------------------------------------- create_tiled_image_pdf
\* the calls of create_tiled_image_pdf that can raise, "none": none raises
TileStops == {"none", "image_open", "doc_open", "new_page", "makedirs",
              "resize", "scaled_save", "save"}

\* handles still open when create_tiled_image_pdf returns
TileLeaked(stop) ==
    CASE stop = "image_open"  -> {}                 \* line 78
      [] stop = "doc_open"    -> {"image"}          \* line 87, fitz.open raised
      [] stop = "new_page"    -> {"image", "doc"}   \* line 87, new_page raised
      [] stop = "makedirs"    -> {"image", "doc"}   \* line 101 -> line 155
      [] stop = "resize"      -> {"image", "doc"}   \* line 112, before load
      [] stop = "scaled_save" -> {"doc"}            \* line 112, file read by load
      [] stop = "save"        -> {"doc"}            \* line 150, close skipped
      [] OTHER                -> {}                 \* line 137 closes doc

\* the return value: True only from line 144
TileRet(stop, insertFault) == stop = "none"

\* the page written by doc.save at line 136
TiledPage(insertFault) ==
    [exists |-> TRUE, tiles |-> IF insertFault THEN "partial" ELSE "all",
     footer |-> 0, name |-> 0, width |-> 0, length |-> 0]

\* ------------------------------------------- overlay_footer_and_add_text
OverlayStops == {"none", "simple_footer", "open_base", "open_footer",
                 "footer_nopages", "pixmap", "insert_footer", "save_temp",
                 "replace"}

\* position of the insert_text call that raises, 0: none raises
TextFaults == 0..NumFields

\* lines 166-191: the footer that is opened, Synthetic for the generated one
FooterChoice(fpath, existing) ==
    IF fpath \in existing THEN fpath
    ELSE LET fb == FirstExisting(fallback_paths, existing)
         IN  IF fb # "" THEN fb ELSE Synthetic

\* does the call get past the given stage
ReachesOpen(stop, choice) == ~(choice = Synthetic /\ stop = "simple_footer")
ReachesText(stop, choice) ==
    /\ ReachesOpen(stop, choice)
    /\ stop \notin {"open_base", "open_footer", "footer_nopages", "pixmap",
                    "insert_footer"}
TempSaved(stop, choice) == ReachesText(stop, choice) /\ stop # "save_temp"

\* handles still open when overlay_footer_and_add_text returns
OverlayLeaked(stop, choice) ==
    IF ~ReachesOpen(stop, choice) THEN {}                    \* line 191
    ELSE CASE stop = "open_base"      -> {}                  \* line 214
           [] stop = "open_footer"    -> {"base_doc"}        \* line 214
           [] stop = "footer_nopages" -> {}                  \* lines 206-207
           [] stop = "pixmap"         -> {}                  \* lines 221-222
           [] stop = "insert_footer"  -> {}                  \* lines 236-237
           [] stop = "save_temp"      -> {"base_doc", "footer_doc"}  \* line 344
           [] OTHER                   -> {}                  \* lines 317-318

\* lines 245-309. t1 = 0: the three primary insert_text calls succeed,
\* t1 = k: the k-th raises; t2 likewise for the alternate scheme, which
\* runs only when the primary one raised.
StampCount(field, t1, t2) ==
    LET primary == IF t1 = 0 \/ field < t1 THEN 1 ELSE 0
        alt == IF t1 # 0 /\ (t2 = 0 \/ field < t2) THEN 1 ELSE 0
    IN  primary + alt

\* the page composed in memory on base_page (lines 232-309)
ComposedPage(base, t1, t2) ==
    [exists |-> TRUE, tiles |-> base.tiles, footer |-> base.footer + 1,
     name |-> base.name + StampCount(1, t1, t2),
     width |-> base.width + StampCount(2, t1, t2),
     length |-> base.length + StampCount(3, t1, t2)]

\* line 328: the path the page is moved to
OutKind(removeFail) == IF removeFail THEN "new" ELSE "target"

\* lines 311-344 on the three paths of one output; fs maps Kinds to pages
OverlayFiles(fs, stop, choice, t1, t2, removeFail) ==
    IF ~TempSaved(stop, choice) THEN fs
    ELSE LET page == ComposedPage(fs["target"], t1, t2)
             saved == [fs EXCEPT !["temp"] = page]                 \* line 314
             removed == IF removeFail THEN saved                   \* line 323
                        ELSE [saved EXCEPT !["target"] = NoFile]
         IN  IF stop = "replace" THEN removed                      \* line 331 raises
             ELSE [removed EXCEPT ![OutKind(removeFail)] = page,
                                  !["temp"] = NoFile]

\* mutant: a missing footer asset is a hard failure
OverlayRet_MissingFatal(stop, choice, t1, t2) ==
    TempSaved(stop, choice) /\ stop # "replace" /\ choice # Synthetic

\* mutant: text placement failing in both schemes is a failure
OverlayRet_TextFatal(stop, choice, t1, t2) ==
    TempSaved(stop, choice) /\ stop # "replace" /\ ~(t1 # 0 /\ t2 # 0)

\* the return value: True only from line 338
OverlayRet(stop, choice, t1, t2) == TempSaved(stop, choice) /\ stop # "replace"

\* --------------------------------------------------------- environments
\* env.tile, env.overlay: the calls that may raise; env.insert, env.remove:
\* may page.insert_image (line 127) / os.remove (line 323) raise;
\* env.text: the insert_text calls that may raise
NoFaults == [tile |-> {"none"}, insert |-> {FALSE}, overlay |-> {"none"},
             text |-> {0}, remove |-> {FALSE}]
AllFaults == [tile |-> TileStops, insert |-> BOOLEAN, overlay |-> OverlayStops,
              text |-> TextFaults, remove |-> BOOLEAN]
\* only the save steps (lines 136 and 314) may raise
SaveFaults == [tile |-> {"none", "save"}, insert |-> {FALSE},
               overlay |-> {"none", "save_temp"}, text |-> {0},
               remove |-> {FALSE}]
\* only the calls that touch the footer asset, and insert_text, may raise
FooterFaults == [tile |-> {"none"}, insert |-> {FALSE},
                 overlay |-> {"none", "simple_footer", "open_footer",
                              "footer_nopages", "pixmap", "insert_footer"},
                 text |-> TextFaults, remove |-> {FALSE}]

\* ------------------------------------------------------------ idle halves
horizontal_repeats == 6

MainIdle ==
    /\ footers = {} /\ simple_footer = 0 /\ images = <<>>
    /\ files = [k \in Kinds |-> NoFile] /\ exists_6ft = FALSE
    /\ env = NoFaults
    /\ pc = "off" /\ footer_path = "" /\ idx = 0 /\ size = "6ft"
    /\ attempt = 0 /\ success = FALSE /\ tries = 0 /\ sleeps = 0
    /\ status = [s \in Sizes |-> "none"]
    /\ verified = [i \in 1..MaxImages |-> "none"]
    /\ exit_code = -1 /\ leaked = {} /\ last = NoCall

TileIdle ==
    /\ tpc = "off"
    /\ template_width = FZero /\ template_height = FZero /\ img = <<1, 1>>
    /\ tile_width = FZero /\ tile_height = FZero /\ x = FZero /\ y = FZero
    /\ rowTiles = 0 /\ rows = <<>>

\* -------------------------------------------------- SpecTile: tiling loop
TileInit ==
    /\ tpc = "start"
    /\ template_width \in {FromInt(n) : n \in MinWidth..MaxWidth}
    /\ template_height \in {FromInt(n) : n \in MinHeight..MaxHeight}
    /\ img \in (1..MaxImgDim) \X (1..MaxImgDim)
    /\ tile_width = FZero /\ tile_height = FZero
    /\ x = FZero /\ y = FZero
    /\ rowTiles = 0 /\ rows = <<>>
    /\ MainIdle

\* lines 89-92 and 120: tile dimensions, y = 0
CalcTile ==
    /\ tpc = "start"
    /\ tile_width' = FDiv(template_width, FromInt(horizontal_repeats))
    /\ tile_height' = FDiv(tile_width', FDiv(FromInt(img[1]), FromInt(img[2])))
    /\ y' = FZero
    /\ tpc' = "row"
    /\ UNCHANGED <<template_width, template_height, img, x, rowTiles, rows>>
    /\ UNCHANGED mvars

\* line 122 true, line 123: a new row starts
BeginRow ==
    /\ tpc = "row"
    /\ FLt(y, template_height)
    /\ x' = FZero
    /\ rowTiles' = 0
    /\ tpc' = "tile"
    /\ UNCHANGED <<template_width, template_height, img, tile_width, tile_height,
                   y, rows>>
    /\ UNCHANGED mvars

\* lines 124-131: one tile rect (x, y, x + tile_width, y + tile_height)
PlaceTile ==
    /\ tpc = "tile"
    /\ FLe(FAdd(x, tile_width), template_width)
    /\ rowTiles' = rowTiles + 1
    /\ x' = FAdd(x, tile_width)
    /\ UNCHANGED <<tpc, template_width, template_height, img, tile_width,
                   tile_height, y, rows>>
    /\ UNCHANGED mvars

\* line 124 false, line 132: the row is complete
EndRow ==
    /\ tpc = "tile"
    /\ ~FLe(FAdd(x, tile_width), template_width)
    /\ rows' = Append(rows, rowTiles)
    /\ y' = FAdd(y, tile_height)
    /\ tpc' = "row"
    /\ UNCHANGED <<template_width, template_height, img, tile_width, tile_height,
                   x, rowTiles>>
    /\ UNCHANGED mvars

\* line 122 false
EndTiling ==
    /\ tpc = "row"
    /\ ~FLt(y, template_height)
    /\ tpc' = "done"
    /\ UNCHANGED <<template_width, template_height, img, tile_width, tile_height,
                   x, y, rowTiles, rows>>
    /\ UNCHANGED mvars

NextTile == CalcTile \/ BeginRow \/ PlaceTile \/ EndRow \/ EndTiling

SpecTile == TileInit /\ [][NextTile]_vars

\* ------------------------------------------------------------ Spec: main
\* the footer assets present when the retry loops are explored
FooterConfigs == {{}, {FOOTER_PATH}}

MainInit(configs, envs, maxImages) ==
    /\ TileIdle
    /\ footers \in configs
    /\ env \in envs
    /\ simple_footer = 0
    /\ images \in [1..maxImages -> BOOLEAN]
    /\ files = [k \in Kinds |-> NoFile] /\ exists_6ft = FALSE
    /\ pc = "start" /\ footer_path = "" /\ idx = 0 /\ size = "6ft"
    /\ attempt = 0 /\ success = FALSE /\ tries = 0 /\ sleeps = 0
    /\ status = [s \in Sizes |-> "none"]
    /\ verified = [i \in 1..MaxImages |-> "none"]
    /\ exit_code = -1 /\ leaked = {} /\ last = NoCall

Init == MainInit(FooterConfigs, {AllFaults, SaveFaults}, MaxImages)

\* lines 394-396: verify_directories() returned False
VerifyFails ==
    /\ pc = "start"
    /\ pc' = "exit"
    /\ exit_code' = 1
    /\ UNCHANGED <<footers, simple_footer, images, files, exists_6ft, env,
                   footer_path, idx, size, attempt, success, tries, sleeps,
                   status, verified, leaked, last>>

\* lines 394-428: directories verified, footer search of main
FindFooter ==
    /\ pc = "start"
    /\ footer_path' = MainFooterPath(footers)
    /\ idx' = 1
    /\ pc' = "image"
    /\ UNCHANGED <<footers, simple_footer, images, files, exists_6ft, env, size,
                   attempt, success, tries, sleeps, status, verified, exit_code,
                   leaked, last>>

\* line 430 exhausted, lines 501 and 508
Finish ==
    /\ pc = "image"
    /\ idx > Len(images)
    /\ pc' = "done"
    /\ exit_code' = 0
    /\ UNCHANGED <<footers, simple_footer, images, files, exists_6ft, env,
                   footer_path, idx, size, attempt, success, tries, sleeps,
                   status, verified, leaked, last>>

\* lines 431-433: the image file is missing, continue
SkipImage ==
    /\ pc = "image"
    /\ idx <= Len(images)
    /\ ~images[idx]
    /\ verified' = [verified EXCEPT ![idx] = "skipped"]
    /\ idx' = idx + 1
    /\ UNCHANGED <<footers, simple_footer, images, files, exists_6ft, env, pc,
                   footer_path, size, attempt, success, tries, sleeps, status,
                   exit_code, leaked, last>>

\* lines 435-450: the output paths of this image, the 6ft retry loop is entered
BeginImage ==
    /\ pc = "image"
    /\ idx <= Len(images)
    /\ images[idx]
    /\ size' = "6ft"
    /\ attempt' = 0 /\ success' = FALSE /\ tries' = 0 /\ sleeps' = 0
    /\ files' = [k \in Kinds |-> NoFile] /\ exists_6ft' = FALSE
    /\ status' = [s \in Sizes |-> "none"]
    /\ pc' = "tile"
    /\ UNCHANGED <<footers, simple_footer, images, env, footer_path, idx,
                   verified, exit_code, leaked, last>>

\* mutant: the wait is not skipped after the last attempt
AfterFailure_AlwaysSleep(att) == "sleep"

\* where main goes when a stage returned False (lines 463-465, 488-490)
AfterFailure(att) == IF att < max_attempts - 1 THEN "sleep" ELSE "endloop"

\* lines 453 / 478: one call of create_tiled_image_pdf
Tile ==
    /\ pc = "tile"
    /\ \E stop \in env.tile, insertFault \in env.insert :
         LET ret == TileRet(stop, insertFault)
         IN  /\ insertFault => stop \in {"none", "save"}
             /\ files' = IF ret
                         THEN [files EXCEPT !["target"] = TiledPage(insertFault)]
                         ELSE files
             /\ leaked' = TileLeaked(stop)
             /\ last' = [NoCall EXCEPT !.fn = "tile", !.ret = ret, !.stop = stop,
                                       !.insertFault = insertFault]
             /\ pc' = IF ret THEN "overlay" ELSE AfterFailure(attempt)
    /\ tries' = tries + 1
    /\ UNCHANGED <<footers, simple_footer, images, exists_6ft, env, footer_path,
                   idx, size, attempt, success, sleeps, status, verified,
                   exit_code>>

\* lines 455-458 / 480-483: one call of overlay_footer_and_add_text
Overlay ==
    /\ pc = "overlay"
    /\ \E stop \in env.overlay, t1 \in env.text, t2 \in env.text,
          removeFail \in env.remove :
         LET choice == FooterChoice(footer_path, footers)
             ret == OverlayRet(stop, choice, t1, t2)
             text == ReachesText(stop, choice)
         IN  /\ t1 = 0 => t2 = 0
             /\ ~text => t1 = 0
             /\ ~TempSaved(stop, choice) => ~removeFail
             /\ files' = OverlayFiles(files, stop, choice, t1, t2, removeFail)
             /\ simple_footer' = IF choice = Synthetic /\ ReachesOpen(stop, choice)
                                 THEN simple_footer_height ELSE simple_footer
             /\ leaked' = OverlayLeaked(stop, choice)
             /\ last' = [NoCall EXCEPT
                           !.fn = "overlay", !.ret = ret, !.stop = stop,
                           !.used = IF ReachesOpen(stop, choice) THEN choice ELSE "",
                           !.text1 = t1, !.text2 = t2,
                           !.altTried = text /\ t1 # 0,
                           !.removeFail = removeFail,
                           !.tempSaved = TempSaved(stop, choice)]
             /\ success' = ret
             /\ pc' = IF ret THEN "endloop" ELSE AfterFailure(attempt)
    /\ UNCHANGED <<footers, images, exists_6ft, env, footer_path, idx, size,
                   attempt, tries, sleeps, status, verified, exit_code>>

\* lines 463-465 / 488-490: wait, then the next attempt
Sleep ==
    /\ pc = "sleep"
    /\ sleeps' = sleeps + 1
    /\ attempt' = attempt + 1
    /\ pc' = "tile"
    /\ last' = NoCall
    /\ UNCHANGED <<footers, simple_footer, images, files, exists_6ft, env,
                   footer_path, idx, size, success, tries, status, verified,
                   exit_code, leaked>>

\* mutant: a failed output ends main
AfterLoop_Abort(sz, ok) ==
    IF ~ok THEN "done" ELSE IF sz = "6ft" THEN "tile" ELSE "verify"

\* where main goes after the retry loop of a size (lines 467-474, 492-496)
AfterLoop(sz, ok) == IF sz = "6ft" THEN "tile" ELSE "verify"

\* lines 467-474 / 492-493: the retry loop is over; after the 6ft loop the
\* 15ft loop starts on the paths of the 15ft output
EndLoop ==
    /\ pc = "endloop"
    /\ status' = [status EXCEPT ![size] = IF success THEN "ok" ELSE "failed"]
    /\ pc' = AfterLoop(size, success)
    /\ last' = NoCall
    /\ IF size = "6ft"
       THEN /\ exists_6ft' = files["target"].exists
            /\ IF pc' = "tile"
               THEN /\ size' = "15ft"
                    /\ files' = [k \in Kinds |-> NoFile]
                    /\ attempt' = 0 /\ success' = FALSE /\ tries' = 0 /\ sleeps' = 0
               ELSE UNCHANGED <<size, files, attempt, success, tries, sleeps>>
       ELSE UNCHANGED <<exists_6ft, size, files, attempt, success, tries, sleeps>>
    /\ UNCHANGED <<footers, simple_footer, images, env, footer_path, idx,
                   verified, exit_code, leaked>>

\* lines 495-499: final check of the image, then the next image
Verify ==
    /\ pc = "verify"
    /\ verified' = [verified EXCEPT ![idx] =
                      IF exists_6ft /\ (size = "15ft" /\ files["target"].exists)
                      THEN "ok" ELSE "incomplete"]
    /\ idx' = idx + 1
    /\ pc' = "image"
    /\ UNCHANGED <<footers, simple_footer, images, files, exists_6ft, env,
                   footer_path, size, attempt, success, tries, sleeps, status,
                   exit_code, leaked, last>>

Next ==
    \/ (VerifyFails /\ UNCHANGED tvars)
    \/ (FindFooter /\ UNCHANGED tvars)
    \/ (Finish /\ UNCHANGED tvars)
    \/ (SkipImage /\ UNCHANGED tvars)
    \/ (BeginImage /\ UNCHANGED tvars)
    \/ (Tile /\ UNCHANGED tvars)
    \/ (Overlay /\ UNCHANGED tvars)
    \/ (Sleep /\ UNCHANGED tvars)
    \/ (EndLoop /\ UNCHANGED tvars)
    \/ (Verify /\ UNCHANGED tvars)

Spec == Init /\ [][Next]_vars

\* every combination of footer assets, one image
InitFooter == MainInit(SUBSET FooterPaths, {FooterFaults}, 1)

SpecFooter == InitFooter /\ [][Next]_vars

\* ----------------------------------------------------------------- claims
\* exact ceil(template_height / tile_height) of the two float values
CeilRows ==
    LET e == MinExp(template_height, tile_height)
        h == Scaled(template_height, e)
        t == Scaled(tile_height, e)
    IN  (h + t - 1) \div t

\* C1: every row placed by create_tiled_image_pdf holds exactly
\* horizontal_repeats = 6 tiles (no missing sixth column), for every
\* template width and every image aspect ratio.
C1_SixTilesPerRow ==
    \A i \in 1..Len(rows) : rows[i] = 6

\* C2: the tiling loop ends after exactly ceil(template_height / tile_height)
\* rows.
C2_RowCountIsCeil == tpc = "done" => Len(rows) = CeilRows

\* C3: each retry loop makes at most 3 attempts, none after the first
\* attempt in which tiling and overlay both succeed, waits only between two
\* attempts, marks the output failed only after 3 failed attempts, and ends
\* with the output file present when an attempt succeeded.
C3_BoundedRetry ==
    /\ tries <= 3
    /\ pc \in {"tile", "overlay", "sleep"} => ~success
    /\ pc = "sleep" => tries < 3 /\ sleeps = tries - 1
    /\ pc = "endloop" =>
         /\ sleeps = tries - 1
         /\ ~success => tries = 3
         /\ success => /\ last.fn = "overlay" /\ last.ret
                       /\ files["target"].exists

\* C3 witness: the save step failed on attempt 1 and attempt 2 succeeded
C3_Witness ==
    /\ env = SaveFaults
    /\ pc = "endloop" /\ success /\ tries = 2 /\ sleeps = 1
    /\ files["target"].exists

\* C4: no failure of an image ends the per-image loop: main finishes with
\* every image of the command line either skipped as missing or taken
\* through both retry loops and the final check; an image whose two loops
\* succeeded has both outputs, and the 15ft loop runs whatever the 6ft loop
\* did.
C4_LoopNeverAborts ==
    /\ pc = "exit" => idx = 0
    /\ pc = "done" =>
         /\ exit_code = 0
         /\ \A i \in 1..Len(images) :
              IF images[i] THEN verified[i] \in {"ok", "incomplete"}
              ELSE verified[i] = "skipped"
    /\ pc = "verify" =>
         /\ size = "15ft" /\ tries >= 1
         /\ status["6ft"] # "none" /\ status["15ft"] # "none"
         /\ (status["6ft"] = "ok" /\ status["15ft"] = "ok")
               => (exists_6ft /\ files["target"].exists)
    /\ \A i \in 1..Len(images) :
         (verified[i] = "ok" \/ verified[i] = "incomplete") => images[i]

\* C4 witness: the first image failed, the second has both outputs
C4_Witness ==
    /\ pc = "done" /\ Len(images) >= 2
    /\ verified[1] = "incomplete" /\ verified[2] = "ok"

\* C5: create_tiled_image_pdf never returns True for a page on which a
\* tile could not be placed, so that such an attempt is retried.
C5_TileErrorFailsAttempt ==
    /\ (last.fn = "tile" /\ last.insertFault) => ~last.ret
    /\ pc = "overlay" => files["target"].tiles = "all"

\* the footer the claimed search order selects: the primary path, then the
\* template folder, then the base folder, then an alternate-case file name,
\* and the generated footer when none exists
ClaimedFooters(existing) ==
    IF FOOTER_PATH \in existing THEN {FOOTER_PATH}
    ELSE IF TemplateFooter \in existing THEN {TemplateFooter}
    ELSE IF BaseFooter \in existing THEN {BaseFooter}
    ELSE IF existing \cap {ScriptsFooterLc, TemplateFooterLc, BaseFooterLc} # {}
         THEN existing \cap {ScriptsFooterLc, TemplateFooterLc, BaseFooterLc}
    ELSE {Synthetic}

\* C6: the footer opened by overlay_footer_and_add_text is the first that
\* exists in the order primary path, template folder, base folder,
\* alternate-case names; a footer is generated only when none exists.
C6_FooterSearchOrder ==
    /\ (last.fn = "overlay" /\ last.used # "") => last.used \in ClaimedFooters(footers)
    /\ simple_footer # 0 => footers = {}

\* C6 witness: only the base-folder footer exists and it is the one used
C6_Witness ==
    /\ footers = {BaseFooter}
    /\ last.fn = "overlay" /\ last.ret /\ last.used = BaseFooter

\* the page delivered by the last overlay call
Delivered == files[OutKind(last.removeFail)]

\* C7: with no footer asset at any searched location the overlay generates
\* a footer of height 100 for either template, uses it, fails only when a
\* library call raised, and the delivered page carries the footer and,
\* unless text placement raised in both schemes, all three fields.
C7_MissingFooterSynthesized ==
    (footers = {} /\ last.fn = "overlay") =>
        /\ last.stop # "simple_footer" => (last.used = Synthetic /\ simple_footer = 100)
        /\ last.stop = "none" => last.ret
        /\ last.ret =>
             /\ Delivered.footer = 1
             /\ (last.text1 = 0 \/ last.text2 = 0) =>
                  (Delivered.name >= 1 /\ Delivered.width >= 1 /\ Delivered.length >= 1)

\* C7 witness: no footer anywhere, the generated one was used on a 15ft page
C7_Witness ==
    /\ footers = {} /\ size = "15ft"
    /\ last.fn = "overlay" /\ last.ret /\ last.used = Synthetic
    /\ last.text1 = 0 /\ simple_footer = 100
    /\ Delivered.name = 1 /\ Delivered.width = 1 /\ Delivered.length = 1

\* C8: whenever overlay_footer_and_add_text saved the composed page to the
\* temporary path, it returns with the composed page at the target path or
\* at the _new path and with no temporary file left.
C8_SafeReplace ==
    (last.fn = "overlay" /\ last.tempSaved) =>
        /\ (files["target"].footer >= 1 \/ files["new"].footer >= 1)
        /\ ~files["temp"].exists

\* C9: no handle opened by create_tiled_image_pdf or by
\* overlay_footer_and_add_text is still open when the function returns.
C9_HandlesReleased == leaked = {}

\* C10: a failure of text placement is not fatal: when the primary scheme
\* raised the alternate scheme is tried, and whether or not that raised too,
\* a call in which nothing else raised delivers the page with the footer
\* image, returns True and ends the retry loop with success.
C10_TextFailureNonFatal ==
    (last.fn = "overlay" /\ last.text1 # 0) =>
        /\ last.altTried
        /\ last.stop = "none" =>
             /\ last.ret /\ success /\ pc = "endloop"
             /\ Delivered.exists /\ Delivered.footer = 1

\* C10 witness: both schemes raised, the page was saved with the footer only
C10_Witness ==
    /\ last.fn = "overlay" /\ last.text1 = 1 /\ last.text2 = 1
    /\ last.ret /\ success /\ pc = "endloop"
    /\ Delivered.footer = 1 /\ Delivered.name = 0

\* C11: when a retry loop is over, the target path holds a file only if an
\* attempt succeeded at tiling and at overlay, and never a tiled page without
\* a footer; the final check reports an image as successful only if both of
\* its retry loops ended with success.
C11_TargetOnlyOnSuccess ==
    /\ (pc = "endloop" /\ files["target"].exists) =>
           (success /\ files["target"].footer >= 1)
    /\ (pc = "image" /\ idx > 1 /\ verified[idx - 1] = "ok") =>
           (status["6ft"] = "ok" /\ status["15ft"] = "ok")

\* the page the last overlay call saved: still at the temporary path when
\* os.replace raised, else at the path it was moved to
SavedPage == IF files["temp"].exists THEN files["temp"] ELSE Delivered

\* C12: on every page saved by overlay_footer_and_add_text each of the three
\* fields is stamped at most once and the footer image is drawn exactly once.
C12_StampedAtMostOnce ==
    (last.fn = "overlay" /\ last.tempSaved) =>
        /\ SavedPage.footer = 1
        /\ SavedPage.name <= 1 /\ SavedPage.width <= 1 /\ SavedPage.length <= 1

====
